---------------------------- MODULE Spec2Model ----------------------------
(***************************************************************************)
(* Model of the cabbage-price question answering service:                  *)
(*   qa_chain.py    VegetablePriceChatbot (_parse_filters, _build_where,   *)
(*                  chat) and the command-line loop main()                 *)
(*   api_server.py  ApiServerState (the process-wide bot) and POST /chat   *)
(*                                                                         *)
(* Text is modelled as a sequence of characters.  A character is a short   *)
(* ASCII token: an ASCII character stands for itself, an ideograph is      *)
(* written in pinyin (a digit is appended where two ideographs share the   *)
(* pinyin).  The ideographs of the model, by code point:                   *)
(*   bei U+5317  jing U+4EAC  tian U+5929  jin U+6D25  shang U+4E0A        *)
(*   hai U+6D77  chong U+91CD qing U+5E86  he U+6CB3   shan U+5C71         *)
(*   xi U+897F   nei U+5185   meng U+8499  gu U+53E4   liao U+8FBD         *)
(*   ning U+5B81 ji U+5409    lin U+6797   hei U+9ED1  long U+9F99         *)
(*   jiang U+6C5F su U+82CF   zhe U+6D59   an U+5B89   hui U+5FBD          *)
(*   fu U+798F   jian U+5EFA  dong U+4E1C  nan U+5357   hu U+6E56          *)
(*   guang U+5E7F si U+56DB   chuan U+5DDD gui U+8D35  zhou U+5DDE         *)
(*   yun U+4E91  zang U+85CF  shaan U+9655 gan U+7518  su2 U+8083          *)
(*   qing2 U+9752 xia U+590F  xin U+65B0   jiang2 U+7586                   *)
(*   shi U+5E02  xian U+53BF  qu U+533A    chang U+573A gong U+516C        *)
(*   si2 U+53F8  pi U+6279    fa U+53D1    jiao U+4EA4 yi U+6613           *)
(*   zhong U+4E2D xin2 U+5FC3 you U+6709   xian2 U+9650                    *)
(*   da U+5927   bai U+767D   cai U+83DC   yuan U+5706 yang U+6D0B         *)
(*   lian U+83B2 hua U+82B1   yue U+6708   ri U+65E5   tui U+9000          *)
(*   chu U+51FA  lan U+5170   jin2 U+4ECA  duo U+591A  shao U+5C11         *)
(*   qian U+94B1 de U+7684    jia U+4EF7   ge U+683C   shu U+852C          *)
(* Other non-ASCII characters: middot U+00B7, lparen_fw U+FF08,            *)
(* rparen_fw U+FF09, qmark_fw U+FF1F.                                      *)
(***************************************************************************)
EXTENDS Integers, Sequences, FiniteSets, TLC

(***************************************************************************)
(* Character classes of the regular expressions, restricted to the         *)
(* alphabet of the model.                                                  *)
(***************************************************************************)
\* \d
Digit == {"0", "1", "2", "3", "4", "5", "6", "7", "8", "9"}

\* [\u4e00-\u9fa9]
Ideograph ==
    {"bei", "jing", "tian", "jin", "shang", "hai", "chong", "qing", "he",
     "shan", "xi", "nei", "meng", "gu", "liao", "ning", "ji", "lin", "hei",
     "long", "jiang", "su", "zhe", "an", "hui", "fu", "jian", "dong", "nan",
     "hu", "guang", "si", "chuan", "gui", "zhou", "yun", "zang", "shaan",
     "gan", "su2", "qing2", "xia", "xin", "jiang2",
     "shi", "xian", "qu", "chang", "gong", "si2", "pi", "fa", "jiao", "yi",
     "zhong", "xin2", "you", "xian2",
     "da", "bai", "cai", "yuan", "yang", "lian", "hua", "yue", "ri", "tui",
     "chu", "lan", "jin2", "duo", "shao", "qian", "de", "jia", "ge", "shu"}

\* [A-Za-z], the letters of the model's alphabet
UpperLetter == {"E", "X", "I", "T", "Q", "U"}
LowerLetter == {"e", "x", "i", "t", "q", "u"}
Letter == UpperLetter \cup LowerLetter

\* \w
WordChar == Ideograph \cup Letter \cup Digit \cup {"_"}

\* [\u4e00-\u9fa9A-Za-z0-9 middot lparen_fw rparen_fw ()\-]
MarketChar ==
    Ideograph \cup Letter \cup Digit
        \cup {"middot", "lparen_fw", "rparen_fw", "(", ")", "-"}

\* str.isspace
Whitespace == {" ", "\t"}

\* Python's None, as a value comparable with character sequences; no text
\* of the model contains this token.
None == <<"<None>">>

\* Python truthiness of an optional string: None and "" are false.
Truthy(v) == v # None /\ Len(v) > 0

Min(S) == CHOOSE i \in S : \A j \in S : i <= j

\* q[i:].startswith(p)
StartsAt(q, i, p) ==
    /\ i >= 1
    /\ i + Len(p) - 1 <= Len(q)
    /\ \A k \in 1..Len(p) : q[i + k - 1] = p[k]

\* p in q
Contains(q, p) == \E i \in 1..(Len(q) + 1) : StartsAt(q, i, p)

\* every character of q[i .. i+n-1] exists and is in class C
AllIn(q, i, n, C) ==
    /\ i + n - 1 <= Len(q)
    /\ \A k \in i..(i + n - 1) : q[k] \in C

DigitVal(c) ==
    CASE c = "0" -> 0 [] c = "1" -> 1 [] c = "2" -> 2 [] c = "3" -> 3
      [] c = "4" -> 4 [] c = "5" -> 5 [] c = "6" -> 6 [] c = "7" -> 7
      [] c = "8" -> 8 [] c = "9" -> 9

DigitChar(n) == <<"0", "1", "2", "3", "4", "5", "6", "7", "8", "9">>[n + 1]

\* int(s) of a string of one or two decimal digits
IntOf(s) == IF Len(s) = 1 THEN DigitVal(s[1])
            ELSE 10 * DigitVal(s[1]) + DigitVal(s[2])

\* f"{n:02d}" for 0 <= n <= 99
Fmt02d(n) == <<DigitChar(n \div 10), DigitChar(n % 10)>>

(***************************************************************************)
(* VegetablePriceChatbot._parse_filters (qa_chain.py 95-137).  re.search   *)
(* returns the leftmost match; at one start position the alternatives are  *)
(* tried in the regular expression's own order (greedy: longest first,     *)
(* lazy: shortest first).                                                  *)
(***************************************************************************)

\* (\d{4})-(\d{2})-(\d{2}) matches at position i
DateFullAt(q, i) ==
    /\ i + 9 <= Len(q)
    /\ AllIn(q, i, 4, Digit)
    /\ q[i + 4] = "-"
    /\ AllIn(q, i + 5, 2, Digit)
    /\ q[i + 7] = "-"
    /\ AllIn(q, i + 8, 2, Digit)

\* m.group(0) of re.search(r"(\d{4})-(\d{2})-(\d{2})", q), or None
DateFullOf(q) ==
    LET S == {i \in 1..Len(q) : DateFullAt(q, i)}
    IN  IF S = {} THEN None ELSE SubSeq(q, Min(S), Min(S) + 9)

\* (\d{1,2})yue(\d{1,2})ri matches at i with a month digits and b day digits
DateMdAt(q, i, a, b) ==
    /\ i + a + b + 1 <= Len(q)
    /\ AllIn(q, i, a, Digit)
    /\ q[i + a] = "yue"
    /\ AllIn(q, i + a + 1, b, Digit)
    /\ q[i + a + b + 1] = "ri"

\* the widths the greedy \d{1,2} groups take at i: two digits are tried first
DateMdWidths(q, i) ==
    IF DateMdAt(q, i, 2, 2) THEN <<2, 2>>
    ELSE IF DateMdAt(q, i, 2, 1) THEN <<2, 1>>
    ELSE IF DateMdAt(q, i, 1, 2) THEN <<1, 2>>
    ELSE IF DateMdAt(q, i, 1, 1) THEN <<1, 1>>
    ELSE <<0, 0>>

\* f"{int(m.group(1)):02d}-{int(m.group(2)):02d}" of the leftmost match, or None
DateMdOf(q) ==
    LET S == {i \in 1..Len(q) : DateMdWidths(q, i) # <<0, 0>>}
    IN  IF S = {} THEN None
        ELSE LET i == Min(S)
                 a == DateMdWidths(q, i)[1]
                 b == DateMdWidths(q, i)[2]
             IN  Fmt02d(IntOf(SubSeq(q, i, i + a - 1))) \o <<"-">>
                     \o Fmt02d(IntOf(SubSeq(q, i + a + 1, i + a + b)))

\* the province list of line 108-110, in its order
Provinces ==
    << <<"bei", "jing">>, <<"tian", "jin">>, <<"shang", "hai">>,
       <<"chong", "qing">>, <<"he", "bei">>, <<"shan", "xi">>,
       <<"nei", "meng", "gu">>, <<"liao", "ning">>, <<"ji", "lin">>,
       <<"hei", "long", "jiang">>,
       <<"jiang", "su">>, <<"zhe", "jiang">>, <<"an", "hui">>,
       <<"fu", "jian">>, <<"jiang", "xi">>, <<"shan", "dong">>,
       <<"he", "nan">>, <<"hu", "bei">>, <<"hu", "nan">>,
       <<"guang", "dong">>,
       <<"guang", "xi">>, <<"hai", "nan">>, <<"si", "chuan">>,
       <<"gui", "zhou">>, <<"yun", "nan">>, <<"xi", "zang">>,
       <<"shaan", "xi">>, <<"gan", "su2">>, <<"qing2", "hai">>,
       <<"ning", "xia">>, <<"xin", "jiang2">> >>

\* the province whose name occurs first in the text of the question
ProvinceOfByPosition(q) ==
    LET S == {k \in 1..Len(Provinces) : Contains(q, Provinces[k])}
        At(k) == Min({i \in 1..Len(q) : StartsAt(q, i, Provinces[k])})
    IN  IF S = {} THEN None
        ELSE Provinces[CHOOSE k \in S : \A h \in S : At(k) <= At(h)]

\* next((p for p in [...] if p in q), None)
ProvinceOf(q) ==
    LET S == {k \in 1..Len(Provinces) : Contains(q, Provinces[k])}
    IN  IF S = {} THEN None ELSE Provinces[Min(S)]

\* (?:shi|zhou|xian|qu)
CitySuffix == {"shi", "zhou", "xian", "qu"}

\* ([\u4e00-\u9fa9]{n})(?:shi|zhou|xian|qu)(?!\w) matches at i
CityAt(q, i, n) ==
    /\ i + n <= Len(q)
    /\ AllIn(q, i, n, Ideograph)
    /\ q[i + n] \in CitySuffix
    /\ (i + n + 1 <= Len(q) => q[i + n + 1] \notin WordChar)

\* m.group(1) of the leftmost match; the greedy {2,3} tries three first
CityOf(q) ==
    LET S == {i \in 1..Len(q) : CityAt(q, i, 3) \/ CityAt(q, i, 2)}
    IN  IF S = {} THEN None
        ELSE LET i == Min(S)
             IN  IF CityAt(q, i, 3) THEN SubSeq(q, i, i + 2)
                 ELSE SubSeq(q, i, i + 1)

\* (shichang|gongsi|pifashichang|jiaoyizhongxin|youxiangongsi), in order
MarketSuffixes ==
    << <<"shi", "chang">>, <<"gong", "si2">>,
       <<"pi", "fa", "shi", "chang">>,
       <<"jiao", "yi", "zhong", "xin2">>,
       <<"you", "xian2", "gong", "si2">> >>

\* the alternatives of the suffix group that match at position j
SuffixesAt(q, j) ==
    {k \in 1..Len(MarketSuffixes) : StartsAt(q, j, MarketSuffixes[k])}

\* the quantifier {5,}? in the place of {4,}?
MarketAtMinFive(q, i, n) ==
    /\ n >= 5
    /\ AllIn(q, i, n, MarketChar)
    /\ SuffixesAt(q, i + n) # {}

\* ([...]{n})(suffix) matches at i with a name of exactly n characters
MarketAt(q, i, n) ==
    /\ n >= 4
    /\ AllIn(q, i, n, MarketChar)
    /\ SuffixesAt(q, i + n) # {}

\* m.group(0) of the leftmost match; the lazy {4,}? takes the shortest name
MarketOf(q) ==
    LET S == {i \in 1..Len(q) : \E n \in 4..Len(q) : MarketAt(q, i, n)}
    IN  IF S = {} THEN None
        ELSE LET i == Min(S)
                 n == Min({m \in 4..Len(q) : MarketAt(q, i, m)})
                 k == Min(SuffixesAt(q, i + n))
             IN  SubSeq(q, i, i + n + Len(MarketSuffixes[k]) - 1)

\* the variety keywords of line 125, in order
VarietyKeys ==
    << <<"da", "bai", "cai">>, <<"bai", "cai">>, <<"yuan", "bai", "cai">>,
       <<"yang", "bai", "cai">>, <<"lian", "hua", "bai">> >>

\* the for loop of lines 124-128
VarietyOf(q) ==
    LET S == {k \in 1..Len(VarietyKeys) : Contains(q, VarietyKeys[k])}
    IN  IF S = {} THEN None
        ELSE LET vk == VarietyKeys[Min(S)]
             IN  IF vk # <<"da", "bai", "cai">> THEN <<"da", "bai", "cai">>
                 ELSE vk

_parse_filters(q) ==
    [date_full |-> DateFullOf(q),
     date_md   |-> DateMdOf(q),
     province  |-> ProvinceOf(q),
     city      |-> CityOf(q),
     market    |-> MarketOf(q),
     variety   |-> VarietyOf(q)]

(***************************************************************************)
(* VegetablePriceChatbot._build_where (qa_chain.py 140-165).  A clause     *)
(* {key: {"$eq": value}} is the record [key, eq]; the three shapes of the  *)
(* result ({}, one clause, {"$and": clauses}) are told apart by op.        *)
(***************************************************************************)
Clause(k, v) == [key |-> k, eq |-> v]

\* a _build_where without the market priority: the province and city
\* clauses are appended whether or not market is set
LocatorClausesNoPriority(filters) ==
    (IF Truthy(filters.market)
     THEN <<Clause("market", filters.market)>> ELSE <<>>)
    \o (IF Truthy(filters.province)
        THEN <<Clause("province", filters.province)>> ELSE <<>>)
    \o (IF Truthy(filters.city)
        THEN <<Clause("city", filters.city)>> ELSE <<>>)

\* lines 143-149
LocatorClauses(filters) ==
    IF Truthy(filters.market)
    THEN <<Clause("market", filters.market)>>
    ELSE (IF Truthy(filters.province)
          THEN <<Clause("province", filters.province)>> ELSE <<>>)
         \o (IF Truthy(filters.city)
             THEN <<Clause("city", filters.city)>> ELSE <<>>)

\* two independent tests in the place of if / elif: both date clauses
DateClausesBoth(filters) ==
    (IF Truthy(filters.date_full)
     THEN <<Clause("date", filters.date_full)>> ELSE <<>>)
    \o (IF Truthy(filters.date_md)
        THEN <<Clause("date_md", filters.date_md)>> ELSE <<>>)

\* lines 152-155
DateClauses(filters) ==
    IF Truthy(filters.date_full)
    THEN <<Clause("date", filters.date_full)>>
    ELSE IF Truthy(filters.date_md)
         THEN <<Clause("date_md", filters.date_md)>>
         ELSE <<>>

\* lines 158-159
VarietyClauses(filters) ==
    IF Truthy(filters.variety)
    THEN <<Clause("variety", filters.variety)>> ELSE <<>>

\* a compilation without the emptiness test: no clauses make {"$and": []},
\* a filter that is sent to the index and matches nothing
CombineNeverEmpty(clauses) ==
    IF Len(clauses) = 1 THEN [op |-> "clause", clauses |-> clauses]
    ELSE [op |-> "$and", clauses |-> clauses]

\* lines 161-165
Combine(clauses) ==
    IF Len(clauses) = 0 THEN [op |-> "empty", clauses |-> <<>>]
    ELSE IF Len(clauses) = 1 THEN [op |-> "clause", clauses |-> clauses]
    ELSE [op |-> "$and", clauses |-> clauses]

_build_where(filters) ==
    Combine(LocatorClauses(filters) \o DateClauses(filters)
                \o VarietyClauses(filters))

\* "if where:" -- a dict is true when it is not empty
WhereTruthy(where) == where.op # "empty"

(***************************************************************************)
(* State.  The first four variables hold one evaluation of the pure        *)
(* functions _parse_filters and _build_where; the others are the state of  *)
(* the running service.                                                    *)
(***************************************************************************)
VARIABLES
    stage,          \* "question", "parsed" or "built"
    in_question,    \* the text handed to _parse_filters
    filters,        \* the dict _parse_filters returned
    out_where       \* the filter _build_where returned

pureVars == <<stage, in_question, filters, out_where>>

VARIABLES
    _bot,           \* ApiServerState._bot: 0 is None, else the bot's number
    _lock,          \* ApiServerState._lock: 0 is free, else the holding thread
    nbots,          \* how many VegetablePriceChatbot objects were constructed
    memory,         \* memory[b]: the turns in bot b's ConversationBufferMemory
    started,        \* how many questions have been submitted so far
    answered,       \* answered[b]: answers bot b's callers have been handed
    pc,             \* pc[t]: where thread t is in its handler
    question,       \* the question of the call thread t is serving
    conv,           \* the conversation (client) that question belongs to
    bot,            \* the local variable bot: the instance t calls chat on
    chat_history,   \* the local variable chat_history
    where,          \* the local variable where
    docs,           \* the documents retrieved for this call
    answer,         \* the text the generation step returned
    exc,            \* the message of the exception being propagated
    result,         \* what bot.chat returned
    response,       \* what the entry point handed to its caller
    calls           \* what this call has invoked so far

sharedVars == <<_bot, _lock, nbots, memory, started, answered>>
localVars == <<pc, question, conv, bot, chat_history, where, docs, answer,
               exc, result, response, calls>>

VARIABLES
    index_dir,      \* the directory ./chroma_db_zhipu: "ready" or "deleted"
    builds,         \* how many runs of init_vector_db have completed
    bot_built,      \* bot_built[b]: the value of builds when b was constructed
    build_no        \* build_no[t]: the number of the build of t's /rebuild

rebuildVars == <<index_dir, builds, bot_built, build_no>>
chatVars == <<sharedVars, localVars, rebuildVars>>
vars == <<pureVars, chatVars>>

NoFilters ==
    [date_full |-> None, date_md |-> None, province |-> None,
     city |-> None, market |-> None, variety |-> None]

EmptyWhere == [op |-> "empty", clauses |-> <<>>]

(***************************************************************************)
(* Inputs of the pure functions.  A question is a concatenation of at most *)
(* MaxFrags fragments; a predicate set gives each key None or a value that *)
(* _parse_filters can produce.                                             *)
(***************************************************************************)
MaxFrags == 3

Fragments ==
    << <<"2", "0", "2", "4", "-", "0", "5", "-", "0", "1">>,
       <<"5", "yue", "1", "ri">>,
       <<"1", "2", "yue", "2", "5", "ri">>,
       <<"gan", "su2">>,
       <<"bei", "jing">>,
       <<"lan", "zhou", "shi">>,
       <<"lan", "zhou", "shi", "chang">>,
       <<"shu", "cai", "pi", "fa", "shi", "chang">>,
       <<"bai", "cai">>,
       <<"da", "bai", "cai">>,
       <<" ">>,
       <<"duo", "shao", "qian">> >>

RECURSIVE Concat(_)
Concat(ss) == IF Len(ss) = 0 THEN <<>> ELSE Head(ss) \o Concat(Tail(ss))

\* two whole questions: a market whose name is two characters long, and a
\* full date with a province and a variety
LanzhouQuestion ==
    <<"lan", "zhou", "shi", "chang", "jin2", "tian", "da", "bai", "cai",
      "duo", "shao", "qian">>
GansuQuestion ==
    <<"2", "0", "2", "4", "-", "0", "5", "-", "0", "1", "gan", "su2", "de",
      "bai", "cai", "jia", "ge">>

Questions ==
    {Concat([k \in 1..Len(f) |-> Fragments[f[k]]]) :
        f \in UNION {[1..n -> 1..Len(Fragments)] : n \in 0..MaxFrags}}
    \cup {LanzhouQuestion, GansuQuestion}

PredicateSets ==
    [date_full : {None, <<"2", "0", "2", "4", "-", "0", "5", "-", "0", "1">>},
     date_md   : {None, <<"0", "5", "-", "0", "1">>},
     province  : {None, <<"gan", "su2">>, <<"bei", "jing">>},
     city      : {None, <<"lan", "zhou">>},
     market    : {None, <<"lan", "zhou", "shu", "cai", "shi", "chang">>},
     variety   : {None, <<"da", "bai", "cai">>}]

\* filters = self._parse_filters(question)
ParseFilters ==
    /\ stage = "question"
    /\ filters' = _parse_filters(in_question)
    /\ stage' = "parsed"
    /\ UNCHANGED <<in_question, out_where>>

\* where = self._build_where(filters)
BuildWhere ==
    /\ stage = "parsed"
    /\ out_where' = _build_where(filters)
    /\ stage' = "built"
    /\ UNCHANGED <<in_question, filters>>

(***************************************************************************)
(* The running service.  Thread 0 is the command-line program main(); the  *)
(* threads 1..NWorkers are the server's worker threads, each serving one   *)
(* POST /chat request at a time.                                           *)
(***************************************************************************)
NWorkers == 2
MaxBots == 2
MaxRequests == 2
MaxDocs == 11
NRebuilders == 2

\* k=10 of similarity_search (line 177), k=6 of as_retriever (line 46)
SearchK == 10
RetrieverK == 6

CliThread == 0
Workers == 1..NWorkers

\* the threads that serve the requests POST /rebuild and GET /health
Rebuilders == (NWorkers + 1)..(NWorkers + NRebuilders)
HealthThread == NWorkers + NRebuilders + 1
ServerThreads == Workers \cup Rebuilders \cup {HealthThread}
Threads == {CliThread} \cup ServerThreads
BotIds == 1..MaxBots

\* The clients of the server.  A request carries no session handle
\* (ChatRequest has the one field question): conv only records who asked.
Convs == {"A", "B"}
CliConv == "console"

\* The questions submitted to the running service:
\*   "", " ", "Exit", "tui chu", " exit", "bai cai", "duo shao qian"
ChatQuestions ==
    { <<>>, <<" ">>, <<"E", "x", "i", "t">>, <<"tui", "chu">>,
      <<" ", "e", "x", "i", "t">>, <<"bai", "cai">>,
      <<"duo", "shao", "qian">> }

\* the texts the generation model may return
Answers == {"answer1", "answer2"}

\* str.lower
LowerChar(c) ==
    CASE c = "E" -> "e" [] c = "X" -> "x" [] c = "I" -> "i"
      [] c = "T" -> "t" [] c = "Q" -> "q" [] c = "U" -> "u"
      [] OTHER -> c

Lower(q) == [i \in 1..Len(q) |-> LowerChar(q[i])]

\* str.strip
Strip(q) ==
    LET S == {i \in 1..Len(q) : q[i] \notin Whitespace}
    IN  IF S = {} THEN <<>>
        ELSE SubSeq(q, Min(S), CHOOSE j \in S : \A k \in S : k <= j)

\* line 169: ["tui chu", "exit", "quit"]
TerminationTokens ==
    { <<"tui", "chu">>, <<"e", "x", "i", "t">>, <<"q", "u", "i", "t">> }

\* a termination test that forgets .lower()
IsTerminationCaseSensitive(q) == q \in TerminationTokens

\* line 169: question.lower() in [...]
IsTermination(q) == Lower(q) \in TerminationTokens

\* line 170
TerminationMessage == "dui hua jie shu, gan xie shi yong!"

\* api_server.py line 80: not req.question or not req.question.strip()
IsBlank(q) == Len(q) = 0 \/ Len(Strip(q)) = 0

\* api_server.py line 81
EmptyQuestionDetail == "wen ti bu neng wei kong"

\* the messages of the exceptions the collaborators raise
ConstructError == "bot construction failed"
SearchError == "similarity_search failed"
RetrieveError == "history-aware retriever failed"
GenerateError == "generation failed"

Doc(i) == [page_content |-> i]

\* what the index returns: a prefix of its ranking for the query.  The
\* fixed query of the filtered search and the rewritten question of the
\* fallback rank the documents differently.
SearchHits(n) == [i \in 1..n |-> Doc(i)]
RetrieverHits(n) == [i \in 1..n |-> Doc(MaxDocs + 1 - i)]

MinOf(a, b) == IF a <= b THEN a ELSE b

\* how many documents of the index a query can match: none, one, or all
\* MaxDocs of them, which is more than either k
MatchCounts == {0, 1, MaxDocs}

\* [d.page_content for d in docs]
PageContents(ds) == [i \in 1..Len(ds) |-> ds[i].page_content]

NoResult ==
    [kind |-> "none", answer |-> "", sources |-> <<>>,
     retrieved_count |-> 0, error |-> ""]

NoResponse ==
    [status |-> "none", answer |-> "", sources |-> <<>>,
     retrieved_count |-> 0, detail |-> ""]

NoCalls ==
    [construct |-> 0, load |-> 0, filtered |-> 0, fallback |-> 0,
     generate |-> 0, save |-> 0, failed |-> "none", search_ok |-> FALSE,
     search_result |-> <<>>, gen_context |-> <<>>]

\* line 170: the str chat returns on a termination token
TerminationResult ==
    [NoResult EXCEPT !.kind = "str", !.answer = TerminationMessage]

\* a result that reports the number of documents asked for, not returned
AnswerResultCountsRequested(a, ds) ==
    [NoResult EXCEPT !.kind = "answer", !.answer = a,
                     !.sources = PageContents(ds),
                     !.retrieved_count = SearchK]

\* lines 186 and 190-191: the dict of a successful answer
AnswerResult(a, ds) ==
    [NoResult EXCEPT !.kind = "answer", !.answer = a,
                     !.sources = PageContents(ds),
                     !.retrieved_count = Len(ds)]

\* an except branch that hides the failure behind a made-up answer
ExceptResultFabricated(e) ==
    [NoResult EXCEPT !.kind = "answer", !.answer = "no data found"]

\* line 193: {"error": str(e)}
ExceptResult(e) == [NoResult EXCEPT !.kind = "error", !.error = e]

\* memory.save_context({"input": question}, {"output": answer}); conv is
\* not stored by the code, it tags the turn with the client that asked
SaveContext(mem, q, a, c) ==
    Append(mem, [input |-> q, output |-> a, conv |-> c])

\* a search whose result is ignored: the fallback always runs
AfterSearchAlwaysFallback(ds) == "chain_retrieve"

\* a search whose empty result is answered from directly: no fallback
AfterSearchNeverFallback(ds) == "qa_invoke"

\* line 176 "if where:" and line 178 "if docs:"
AfterLoad(w) == IF WhereTruthy(w) THEN "similarity_search"
                ELSE "chain_retrieve"
AfterSearch(ds) == IF Len(ds) > 0 THEN "qa_invoke" ELSE "chain_retrieve"

\* the locals of a call, cleared when a thread takes the next question
StartCall(t, q, c, next) ==
    /\ started < MaxRequests
    /\ started' = started + 1
    /\ question' = [question EXCEPT ![t] = q]
    /\ conv' = [conv EXCEPT ![t] = c]
    /\ chat_history' = [chat_history EXCEPT ![t] = <<>>]
    /\ where' = [where EXCEPT ![t] = EmptyWhere]
    /\ docs' = [docs EXCEPT ![t] = <<>>]
    /\ answer' = [answer EXCEPT ![t] = ""]
    /\ exc' = [exc EXCEPT ![t] = ""]
    /\ result' = [result EXCEPT ![t] = NoResult]
    /\ calls' = [calls EXCEPT ![t] = NoCalls]
    /\ pc' = [pc EXCEPT ![t] = next]

(***************************************************************************)
(* VegetablePriceChatbot.chat (qa_chain.py 168-193), one action per call   *)
(* to a collaborator.                                                      *)
(***************************************************************************)

\* lines 169-176: the termination test, then the history is loaded and the
\* filter compiled
ChatEnter(t) ==
    /\ pc[t] = "chat"
    /\ IF IsTermination(question[t])
       THEN /\ result' = [result EXCEPT ![t] = TerminationResult]
            /\ pc' = [pc EXCEPT ![t] = "returned"]
            /\ UNCHANGED <<chat_history, where, calls>>
       ELSE LET w == _build_where(_parse_filters(question[t]))
            IN  /\ chat_history' = [chat_history EXCEPT ![t] = memory[bot[t]]]
                /\ calls' = [calls EXCEPT ![t].load = @ + 1]
                /\ where' = [where EXCEPT ![t] = w]
                /\ pc' = [pc EXCEPT ![t] = AfterLoad(w)]
                /\ UNCHANGED result
    /\ UNCHANGED <<pureVars, rebuildVars,
                   sharedVars, question, conv, bot, docs, answer,
                   exc, response>>

\* line 177: self.db.similarity_search(query=..., k=10, filter=where)
SimilaritySearch(t) ==
    /\ pc[t] = "similarity_search"
    /\ \/ \E n \in {MinOf(SearchK, m) : m \in MatchCounts} :
            /\ docs' = [docs EXCEPT ![t] = SearchHits(n)]
            /\ calls' = [calls EXCEPT ![t].filtered = @ + 1,
                                      ![t].search_ok = TRUE,
                                      ![t].search_result = SearchHits(n)]
            /\ pc' = [pc EXCEPT ![t] = AfterSearch(SearchHits(n))]
            /\ UNCHANGED exc
       \/ /\ exc' = [exc EXCEPT ![t] = SearchError]
          /\ calls' = [calls EXCEPT ![t].filtered = @ + 1,
                                    ![t].failed = "similarity_search"]
          /\ pc' = [pc EXCEPT ![t] = "except"]
          /\ UNCHANGED docs
    /\ UNCHANGED <<pureVars, rebuildVars,
                   sharedVars, question, conv, bot, chat_history,
                   where, answer, result, response>>

\* lines 179-184: self.question_answer_chain.invoke({...})
QaInvoke(t) ==
    /\ pc[t] = "qa_invoke"
    /\ \/ \E a \in Answers :
            /\ answer' = [answer EXCEPT ![t] = a]
            /\ calls' = [calls EXCEPT ![t].generate = @ + 1,
                                      ![t].gen_context = docs[t]]
            /\ pc' = [pc EXCEPT ![t] = "save_filtered"]
            /\ UNCHANGED exc
       \/ /\ exc' = [exc EXCEPT ![t] = GenerateError]
          /\ calls' = [calls EXCEPT ![t].generate = @ + 1,
                                    ![t].gen_context = docs[t],
                                    ![t].failed = "generate"]
          /\ pc' = [pc EXCEPT ![t] = "except"]
          /\ UNCHANGED answer
    /\ UNCHANGED <<pureVars, rebuildVars,
                   sharedVars, question, conv, bot, chat_history,
                   where, docs, result, response>>

\* lines 185-186
SaveFiltered(t) ==
    /\ pc[t] = "save_filtered"
    /\ memory' = [memory EXCEPT ![bot[t]] =
                      SaveContext(@, question[t], answer[t], conv[t])]
    /\ calls' = [calls EXCEPT ![t].save = @ + 1]
    /\ result' = [result EXCEPT ![t] = AnswerResult(answer[t], docs[t])]
    /\ pc' = [pc EXCEPT ![t] = "returned"]
    /\ UNCHANGED <<pureVars, rebuildVars,
                   _bot, _lock, nbots, started, answered, question,
                   conv, bot, chat_history, where, docs, answer, exc,
                   response>>

\* line 188, first half of self.chain.invoke: the history-aware retriever
\* is given the question and chat_history and returns result["context"]
ChainRetrieve(t) ==
    /\ pc[t] = "chain_retrieve"
    /\ \/ \E n \in {MinOf(RetrieverK, m) : m \in MatchCounts} :
            /\ docs' = [docs EXCEPT ![t] = RetrieverHits(n)]
            /\ calls' = [calls EXCEPT ![t].fallback = @ + 1]
            /\ pc' = [pc EXCEPT ![t] = "chain_generate"]
            /\ UNCHANGED exc
       \/ /\ exc' = [exc EXCEPT ![t] = RetrieveError]
          /\ calls' = [calls EXCEPT ![t].fallback = @ + 1,
                                    ![t].failed = "retriever"]
          /\ pc' = [pc EXCEPT ![t] = "except"]
          /\ UNCHANGED docs
    /\ UNCHANGED <<pureVars, rebuildVars,
                   sharedVars, question, conv, bot, chat_history,
                   where, answer, result, response>>

\* a fallback that answers from a canned sentence when nothing was
\* retrieved, without calling the generator
ChainGenerateShortCircuit(t) ==
    /\ pc[t] = "chain_generate"
    /\ \/ /\ Len(docs[t]) = 0
          /\ answer' = [answer EXCEPT ![t] = "no data found"]
          /\ pc' = [pc EXCEPT ![t] = "save_fallback"]
          /\ UNCHANGED <<exc, calls>>
       \/ /\ Len(docs[t]) > 0
          /\ \E a \in Answers :
                /\ answer' = [answer EXCEPT ![t] = a]
                /\ calls' = [calls EXCEPT ![t].generate = @ + 1,
                                          ![t].gen_context = docs[t]]
                /\ pc' = [pc EXCEPT ![t] = "save_fallback"]
                /\ UNCHANGED exc
       \/ /\ Len(docs[t]) > 0
          /\ exc' = [exc EXCEPT ![t] = GenerateError]
          /\ calls' = [calls EXCEPT ![t].generate = @ + 1,
                                    ![t].gen_context = docs[t],
                                    ![t].failed = "generate"]
          /\ pc' = [pc EXCEPT ![t] = "except"]
          /\ UNCHANGED answer
    /\ UNCHANGED <<pureVars, rebuildVars,
                   sharedVars, question, conv, bot, chat_history,
                   where, docs, result, response>>

\* line 188, second half of self.chain.invoke: the question-answer chain
\* generates result["answer"] from result["context"]
ChainGenerate(t) ==
    /\ pc[t] = "chain_generate"
    /\ \/ \E a \in Answers :
            /\ answer' = [answer EXCEPT ![t] = a]
            /\ calls' = [calls EXCEPT ![t].generate = @ + 1,
                                      ![t].gen_context = docs[t]]
            /\ pc' = [pc EXCEPT ![t] = "save_fallback"]
            /\ UNCHANGED exc
       \/ /\ exc' = [exc EXCEPT ![t] = GenerateError]
          /\ calls' = [calls EXCEPT ![t].generate = @ + 1,
                                    ![t].gen_context = docs[t],
                                    ![t].failed = "generate"]
          /\ pc' = [pc EXCEPT ![t] = "except"]
          /\ UNCHANGED answer
    /\ UNCHANGED <<pureVars, rebuildVars,
                   sharedVars, question, conv, bot, chat_history,
                   where, docs, result, response>>

\* lines 189-191
SaveFallback(t) ==
    /\ pc[t] = "save_fallback"
    /\ memory' = [memory EXCEPT ![bot[t]] =
                      SaveContext(@, question[t], answer[t], conv[t])]
    /\ calls' = [calls EXCEPT ![t].save = @ + 1]
    /\ result' = [result EXCEPT ![t] = AnswerResult(answer[t], docs[t])]
    /\ pc' = [pc EXCEPT ![t] = "returned"]
    /\ UNCHANGED <<pureVars, rebuildVars,
                   _bot, _lock, nbots, started, answered, question,
                   conv, bot, chat_history, where, docs, answer, exc,
                   response>>

\* an except branch that also records the failed exchange as a turn
ChatExceptSaving(t) ==
    /\ pc[t] = "except"
    /\ result' = [result EXCEPT ![t] = ExceptResult(exc[t])]
    /\ memory' = [memory EXCEPT ![bot[t]] =
                      SaveContext(@, question[t], exc[t], conv[t])]
    /\ pc' = [pc EXCEPT ![t] = "returned"]
    /\ UNCHANGED <<pureVars, rebuildVars,
                   _bot, _lock, nbots, started, answered, question,
                   conv, bot, chat_history, where, docs, answer, exc,
                   response, calls>>

\* lines 192-193: except Exception as e: return {"error": str(e)}
ChatExcept(t) ==
    /\ pc[t] = "except"
    /\ result' = [result EXCEPT ![t] = ExceptResult(exc[t])]
    /\ pc' = [pc EXCEPT ![t] = "returned"]
    /\ UNCHANGED <<pureVars, rebuildVars,
                   sharedVars, question, conv, bot, chat_history,
                   where, docs, answer, exc, response, calls>>

\* the steps of bot.chat, whichever entry point called it
ChatStep(t) ==
    \/ ChatEnter(t)
    \/ SimilaritySearch(t)
    \/ QaInvoke(t)
    \/ SaveFiltered(t)
    \/ ChainRetrieve(t)
    \/ ChainGenerate(t)
    \/ SaveFallback(t)
    \/ ChatExcept(t)

(***************************************************************************)
(* api_server.py: POST /chat (78-93) and ApiServerState.get_bot (35-41).   *)
(***************************************************************************)

\* lines 79-81: a request arrives; a blank question is answered 400
ApiChat(t) ==
    /\ pc[t] \in {"idle", "done"}
    /\ \E q \in ChatQuestions, c \in Convs :
          IF IsBlank(q)
          THEN /\ StartCall(t, q, c, "done")
               /\ response' = [response EXCEPT ![t] =
                     [NoResponse EXCEPT !.status = "400",
                                        !.detail = EmptyQuestionDetail]]
          ELSE /\ StartCall(t, q, c, "get_bot")
               /\ response' = [response EXCEPT ![t] = NoResponse]
    /\ UNCHANGED <<pureVars, rebuildVars,
                   _bot, _lock, nbots, memory, answered, bot>>

\* where get_bot returns to: line 82 of chat, line 110 of rebuild_vector_db,
\* line 64 of health_check
AfterGetBot(t) ==
    IF t \in Rebuilders THEN "rebuild_return"
    ELSE IF t = HealthThread THEN "health_count"
    ELSE "chat"

\* an exception that leaves a handler: /chat does not catch it and the
\* server answers a bare 500; /rebuild and /health catch it and put its
\* message into the detail (lines 74-75 and 112-113)
ErrorDetail(t, e) == IF t \in Workers THEN "Internal Server Error" ELSE e

\* line 37: the unlocked test "if cls._bot is None"
GetBotCheck(t) ==
    /\ pc[t] = "get_bot"
    /\ pc' = [pc EXCEPT ![t] = IF _bot = 0 THEN "get_bot_lock"
                               ELSE "get_bot_return"]
    /\ UNCHANGED <<pureVars, rebuildVars,
                   sharedVars, question, conv, bot, chat_history,
                   where, docs, answer, exc, result, response, calls>>

\* line 38: with cls._lock
GetBotLock(t) ==
    /\ pc[t] = "get_bot_lock"
    /\ _lock = 0
    /\ _lock' = t
    /\ pc' = [pc EXCEPT ![t] = "get_bot_locked"]
    /\ UNCHANGED <<pureVars, rebuildVars,
                   _bot, nbots, memory, started, answered,
                   question, conv, bot, chat_history, where, docs, answer,
                   exc, result, response, calls>>

\* get_bot without the second test under the lock: whoever passed the
\* unlocked test constructs
GetBotConstructNoRecheck(t) ==
    /\ pc[t] = "get_bot_locked"
    /\ _lock' = 0
    /\ \/ /\ nbots < MaxBots
          /\ index_dir = "ready"
          /\ nbots' = nbots + 1
          /\ _bot' = nbots + 1
          /\ memory' = [memory EXCEPT ![nbots + 1] = <<>>]
          /\ bot_built' = [bot_built EXCEPT ![nbots + 1] = builds]
          /\ calls' = [calls EXCEPT ![t].construct = @ + 1]
          /\ pc' = [pc EXCEPT ![t] = "get_bot_return"]
          /\ UNCHANGED <<response, exc>>
       \/ /\ exc' = [exc EXCEPT ![t] = ConstructError]
          /\ calls' = [calls EXCEPT ![t].construct = @ + 1,
                                    ![t].failed = "construct"]
          /\ response' = [response EXCEPT ![t] =
                [NoResponse EXCEPT !.status = "500",
                                   !.detail = ErrorDetail(t, ConstructError)]]
          /\ pc' = [pc EXCEPT ![t] = "done"]
          /\ UNCHANGED <<_bot, nbots, memory, bot_built>>
    /\ UNCHANGED <<pureVars, index_dir, builds, build_no, started, answered,
                   question, conv, bot, chat_history, where, docs, answer,
                   result>>

\* lines 39-40 and the end of the with block: the second test, the
\* construction (which may raise: no API key, empty index) and the release.
\* An exception leaves the handler uncaught: the server answers 500.
GetBotConstruct(t) ==
    /\ pc[t] = "get_bot_locked"
    /\ _lock' = 0
    /\ \/ /\ _bot # 0
          /\ pc' = [pc EXCEPT ![t] = "get_bot_return"]
          /\ UNCHANGED <<_bot, nbots, memory, bot_built, response, calls,
                         exc>>
       \/ /\ _bot = 0
          /\ nbots < MaxBots
          /\ index_dir = "ready"
          /\ nbots' = nbots + 1
          /\ _bot' = nbots + 1
          /\ memory' = [memory EXCEPT ![nbots + 1] = <<>>]
          /\ bot_built' = [bot_built EXCEPT ![nbots + 1] = builds]
          /\ calls' = [calls EXCEPT ![t].construct = @ + 1]
          /\ pc' = [pc EXCEPT ![t] = "get_bot_return"]
          /\ UNCHANGED <<response, exc>>
       \/ /\ _bot = 0
          /\ exc' = [exc EXCEPT ![t] = ConstructError]
          /\ calls' = [calls EXCEPT ![t].construct = @ + 1,
                                    ![t].failed = "construct"]
          /\ response' = [response EXCEPT ![t] =
                [NoResponse EXCEPT !.status = "500",
                                   !.detail = ErrorDetail(t, ConstructError)]]
          /\ pc' = [pc EXCEPT ![t] = "done"]
          /\ UNCHANGED <<_bot, nbots, memory, bot_built>>
    /\ UNCHANGED <<pureVars, index_dir, builds, build_no, started, answered,
                   question, conv, bot, chat_history, where, docs, answer,
                   result>>

\* line 41 "return cls._bot" and line 82 "bot = ApiServerState.get_bot()"
GetBotReturn(t) ==
    /\ pc[t] = "get_bot_return"
    /\ bot' = [bot EXCEPT ![t] = _bot]
    /\ IF t \in Workers /\ _bot = 0
       THEN /\ response' = [response EXCEPT ![t] =
                  [NoResponse EXCEPT !.status = "500",
                                     !.detail = "Internal Server Error"]]
            /\ pc' = [pc EXCEPT ![t] = "done"]
       ELSE /\ pc' = [pc EXCEPT ![t] = AfterGetBot(t)]
            /\ UNCHANGED response
    /\ UNCHANGED <<pureVars, rebuildVars, sharedVars, question, conv,
                   chat_history, where, docs, answer, exc, result, calls>>

\* lines 84-93: the result of bot.chat becomes the HTTP response
ApiResponse(r) ==
    IF r.kind = "error"
    THEN [NoResponse EXCEPT !.status = "500", !.detail = r.error]
    ELSE IF r.kind = "answer"
    THEN [NoResponse EXCEPT !.status = "200", !.answer = r.answer,
                            !.sources = r.sources,
                            !.retrieved_count = r.retrieved_count]
    ELSE [NoResponse EXCEPT !.status = "200", !.answer = r.answer]

ApiRespond(t) ==
    /\ t \in Workers
    /\ pc[t] = "returned"
    /\ response' = [response EXCEPT ![t] = ApiResponse(result[t])]
    /\ answered' = IF result[t].kind = "answer"
                   THEN [answered EXCEPT ![bot[t]] = @ + 1]
                   ELSE answered
    /\ pc' = [pc EXCEPT ![t] = "done"]
    /\ UNCHANGED <<pureVars, rebuildVars,
                   _bot, _lock, nbots, memory, started, question,
                   conv, bot, chat_history, where, docs, answer, exc, result,
                   calls>>

(***************************************************************************)
(* qa_chain.py main() (197-213): the command-line loop.                    *)
(***************************************************************************)

\* line 199: bot = VegetablePriceChatbot(); a failure is printed (212-213)
CliStart ==
    /\ pc[CliThread] = "cli_start"
    /\ \/ /\ nbots < MaxBots
          /\ index_dir = "ready"
          /\ nbots' = nbots + 1
          /\ bot' = [bot EXCEPT ![CliThread] = nbots + 1]
          /\ memory' = [memory EXCEPT ![nbots + 1] = <<>>]
          /\ bot_built' = [bot_built EXCEPT ![nbots + 1] = builds]
          /\ pc' = [pc EXCEPT ![CliThread] = "cli_input"]
          /\ UNCHANGED <<exc, response>>
       \/ /\ exc' = [exc EXCEPT ![CliThread] = ConstructError]
          /\ response' = [response EXCEPT ![CliThread] =
                [NoResponse EXCEPT !.status = "startup failed",
                                   !.detail = ConstructError]]
          /\ pc' = [pc EXCEPT ![CliThread] = "exited"]
          /\ UNCHANGED <<nbots, bot, memory, bot_built>>
    /\ UNCHANGED <<pureVars, index_dir, builds, build_no, _bot, _lock,
                   started, answered, question, conv, chat_history, where,
                   docs, answer, result, calls>>

\* lines 201-202: question = input(...); response = bot.chat(question)
CliInput ==
    /\ pc[CliThread] = "cli_input"
    /\ \E q \in ChatQuestions : StartCall(CliThread, q, CliConv, "chat")
    /\ response' = [response EXCEPT ![CliThread] = NoResponse]
    /\ UNCHANGED <<pureVars, rebuildVars,
                   _bot, _lock, nbots, memory, answered, bot>>

\* lines 203-213.  For the str of a termination token, "error" in response
\* is a substring test (false) and response['answer'] raises TypeError,
\* which the outer except prints as a start-up failure; the loop ends.
CliPrint ==
    /\ pc[CliThread] = "returned"
    /\ LET r == result[CliThread]
       IN  IF r.kind = "str"
           THEN /\ response' = [response EXCEPT ![CliThread] =
                      [NoResponse EXCEPT !.status = "startup failed",
                                         !.detail = "TypeError"]]
                /\ pc' = [pc EXCEPT ![CliThread] = "exited"]
                /\ UNCHANGED answered
           ELSE IF r.kind = "error"
           THEN /\ response' = [response EXCEPT ![CliThread] =
                      [NoResponse EXCEPT !.status = "error printed",
                                         !.detail = r.error]]
                /\ pc' = [pc EXCEPT ![CliThread] = "cli_input"]
                /\ UNCHANGED answered
           ELSE /\ response' = [response EXCEPT ![CliThread] =
                      [NoResponse EXCEPT !.status = "answer printed",
                                         !.answer = r.answer,
                                         !.sources = r.sources,
                                         !.retrieved_count =
                                             r.retrieved_count]]
                /\ answered' = [answered EXCEPT ![bot[CliThread]] = @ + 1]
                /\ pc' = [pc EXCEPT ![CliThread] = "cli_input"]
    /\ UNCHANGED <<pureVars, rebuildVars,
                   _bot, _lock, nbots, memory, started, question,
                   conv, bot, chat_history, where, docs, answer, exc, result,
                   calls>>

(***************************************************************************)
(* Specifications.                                                         *)
(*   Spec       the server: NWorkers threads serving POST /chat            *)
(*   SpecCli    the command-line program                                   *)
(*   SpecParse  _parse_filters, then _build_where, on every question       *)
(*   SpecWhere  _build_where on every predicate set                        *)
(***************************************************************************)
InitPureIdle ==
    /\ stage = "built"
    /\ in_question = <<>>
    /\ filters = NoFilters
    /\ out_where = EmptyWhere

InitService(pc0) ==
    /\ _bot = 0
    /\ _lock = 0
    /\ nbots = 0
    /\ memory = [b \in BotIds |-> <<>>]
    /\ started = 0
    /\ answered = [b \in BotIds |-> 0]
    /\ pc = pc0
    /\ question = [t \in Threads |-> <<>>]
    /\ conv = [t \in Threads |-> IF t = CliThread THEN CliConv ELSE "A"]
    /\ bot = [t \in Threads |-> 0]
    /\ chat_history = [t \in Threads |-> <<>>]
    /\ where = [t \in Threads |-> EmptyWhere]
    /\ docs = [t \in Threads |-> <<>>]
    /\ answer = [t \in Threads |-> ""]
    /\ exc = [t \in Threads |-> ""]
    /\ result = [t \in Threads |-> NoResult]
    /\ response = [t \in Threads |-> NoResponse]
    /\ calls = [t \in Threads |-> NoCalls]
    /\ index_dir = "ready"
    /\ builds = 0
    /\ bot_built = [b \in BotIds |-> 0]
    /\ build_no = [t \in Threads |-> 0]

Init ==
    /\ InitPureIdle
    /\ InitService([t \in Threads |-> IF t \in Workers THEN "idle" ELSE "off"])

Next ==
    \E t \in Workers :
        \/ ApiChat(t)
        \/ GetBotCheck(t)
        \/ GetBotLock(t)
        \/ GetBotConstruct(t)
        \/ GetBotReturn(t)
        \/ ChatStep(t)
        \/ ApiRespond(t)

Spec == Init /\ [][Next]_vars

InitCli ==
    /\ InitPureIdle
    /\ InitService([t \in Threads |-> IF t = CliThread THEN "cli_start"
                                      ELSE "off"])

NextCli ==
    \/ CliStart
    \/ CliInput
    \/ ChatStep(CliThread)
    \/ CliPrint

SpecCli == InitCli /\ [][NextCli]_vars

InitParse ==
    /\ stage = "question"
    /\ in_question \in Questions
    /\ filters = NoFilters
    /\ out_where = EmptyWhere
    /\ InitService([t \in Threads |-> "off"])

NextParse ==
    \/ ParseFilters /\ UNCHANGED chatVars
    \/ BuildWhere /\ UNCHANGED chatVars

SpecParse == InitParse /\ [][NextParse]_vars

InitWhere ==
    /\ stage = "parsed"
    /\ in_question = <<>>
    /\ filters \in PredicateSets
    /\ out_where = EmptyWhere
    /\ InitService([t \in Threads |-> "off"])

NextWhere == BuildWhere /\ UNCHANGED chatVars

SpecWhere == InitWhere /\ [][NextWhere]_vars

(***************************************************************************)
(* api_server.py 96-113 and 61-75: the handlers of POST /rebuild and GET   *)
(* /health, and ApiServerState.reset_bot (43-46).  They run in the thread  *)
(* pool next to the /chat handlers.                                        *)
(***************************************************************************)
BuildError == "init_vector_db failed"
RebuildMessage == "index rebuilt and reloaded"

\* a request POST /rebuild arrives
ApiRebuild(t) ==
    /\ t \in Rebuilders
    /\ pc[t] \in {"idle", "done"}
    /\ StartCall(t, <<>>, conv[t], "rmtree")
    /\ response' = [response EXCEPT ![t] = NoResponse]
    /\ build_no' = [build_no EXCEPT ![t] = 0]
    /\ UNCHANGED <<pureVars, index_dir, builds, bot_built, _bot, _lock,
                   nbots, memory, answered, bot>>

\* lines 103-105: shutil.rmtree of the persist directory, if it exists
RebuildRmtree(t) ==
    /\ pc[t] = "rmtree"
    /\ index_dir' = "deleted"
    /\ pc' = [pc EXCEPT ![t] = "init_vector_db"]
    /\ UNCHANGED <<pureVars, builds, bot_built, build_no, sharedVars,
                   question, conv, bot, chat_history, where, docs, answer,
                   exc, result, response, calls>>

\* line 107: init_vector_db() (vector_db.py 13-85) writes the index anew, or
\* raises (no data file, no API key, no connection) and the handler answers
\* 500 (lines 112-113)
RebuildInitVectorDb(t) ==
    /\ pc[t] = "init_vector_db"
    /\ \/ /\ index_dir' = "ready"
          /\ builds' = builds + 1
          /\ build_no' = [build_no EXCEPT ![t] = builds + 1]
          /\ pc' = [pc EXCEPT ![t] = "reset_bot"]
          /\ UNCHANGED <<exc, response, calls>>
       \/ /\ exc' = [exc EXCEPT ![t] = BuildError]
          /\ calls' = [calls EXCEPT ![t].failed = "init_vector_db"]
          /\ response' = [response EXCEPT ![t] =
                [NoResponse EXCEPT !.status = "500",
                                   !.detail = ErrorDetail(t, BuildError)]]
          /\ pc' = [pc EXCEPT ![t] = "done"]
          /\ UNCHANGED <<index_dir, builds, build_no>>
    /\ UNCHANGED <<pureVars, bot_built, sharedVars, question, conv, bot,
                   chat_history, where, docs, answer, result>>

\* line 109 and lines 43-46: reset_bot takes the lock and sets _bot to None;
\* line 110 then calls get_bot
ResetBot(t) ==
    /\ pc[t] = "reset_bot"
    /\ _lock = 0
    /\ _bot' = 0
    /\ pc' = [pc EXCEPT ![t] = "get_bot"]
    /\ UNCHANGED <<pureVars, rebuildVars, _lock, nbots, memory, started,
                   answered, question, conv, bot, chat_history, where, docs,
                   answer, exc, result, response, calls>>

\* line 111: return {"status": "ok", ...}; what get_bot returned is not
\* looked at
RebuildReturn(t) ==
    /\ pc[t] = "rebuild_return"
    /\ response' = [response EXCEPT ![t] =
          [NoResponse EXCEPT !.status = "200", !.answer = RebuildMessage]]
    /\ pc' = [pc EXCEPT ![t] = "done"]
    /\ UNCHANGED <<pureVars, rebuildVars, sharedVars, question, conv, bot,
                   chat_history, where, docs, answer, exc, result, calls>>

\* a request GET /health arrives; line 64 calls get_bot
ApiHealth(t) ==
    /\ t = HealthThread
    /\ pc[t] \in {"idle", "done"}
    /\ StartCall(t, <<>>, conv[t], "get_bot")
    /\ response' = [response EXCEPT ![t] = NoResponse]
    /\ UNCHANGED <<pureVars, rebuildVars, _bot, _lock, nbots, memory,
                   answered, bot>>

\* lines 65-73: the count of the vectors (0 when it cannot be read) and the
\* response
HealthCount(t) ==
    /\ pc[t] = "health_count"
    /\ response' = [response EXCEPT ![t] =
          [NoResponse EXCEPT !.status = "200", !.answer = "ok"]]
    /\ pc' = [pc EXCEPT ![t] = "done"]
    /\ UNCHANGED <<pureVars, rebuildVars, sharedVars, question, conv, bot,
                   chat_history, where, docs, answer, exc, result, calls>>

InitRebuild ==
    /\ InitPureIdle
    /\ InitService([t \in Threads |-> IF t \in ServerThreads THEN "idle"
                                      ELSE "off"])

NextRebuild ==
    \/ \E t \in ServerThreads :
          \/ GetBotCheck(t)
          \/ GetBotLock(t)
          \/ GetBotConstruct(t)
          \/ GetBotReturn(t)
    \/ \E t \in Workers :
          \/ ApiChat(t)
          \/ ChatStep(t)
          \/ ApiRespond(t)
    \/ \E t \in Rebuilders :
          \/ ApiRebuild(t)
          \/ RebuildRmtree(t)
          \/ RebuildInitVectorDb(t)
          \/ ResetBot(t)
          \/ RebuildReturn(t)
    \/ ApiHealth(HealthThread)
    \/ HealthCount(HealthThread)

SpecRebuild == InitRebuild /\ [][NextRebuild]_vars

(***************************************************************************)
(* The claims.                                                             *)
(***************************************************************************)

\* the filtered search of thread t's call returned without failing
SearchReturned(t) == calls[t].search_ok
SearchCount(t) == Len(calls[t].search_result)

\* C1: in every chat call whose compiled filter is non-empty and whose
\* filtered search returns at least one document, the answer is produced
\* from exactly those documents and the history-aware fallback retrieval is
\* never invoked.
C1_FilteredPathNoFallback ==
    \A t \in Threads :
        (WhereTruthy(where[t]) /\ SearchReturned(t) /\ SearchCount(t) >= 1)
            => /\ calls[t].fallback = 0
               /\ calls[t].filtered = 1
               /\ calls[t].generate > 0
                    => calls[t].gen_context = calls[t].search_result
               /\ result[t].kind = "answer"
                    => /\ calls[t].generate = 1
                       /\ result[t].sources
                            = PageContents(calls[t].search_result)
                       /\ result[t].retrieved_count = SearchCount(t)

\* a call has returned an answer made from the documents of its search
C1_Witness ==
    \E t \in Threads :
        /\ pc[t] = "returned"
        /\ result[t].kind = "answer"
        /\ WhereTruthy(where[t])
        /\ SearchReturned(t)
        /\ SearchCount(t) >= 1
        /\ result[t].retrieved_count = SearchCount(t)

\* thread t's call is past the point where the code retrieves
PastRetrieval(t) ==
    pc[t] \in {"chain_generate", "save_fallback", "except", "returned",
               "done", "cli_input", "exited"}

\* C2: in every non-termination chat call in which the compiled filter is
\* empty or the filtered search returns zero documents without failing, the
\* fallback retrieval is invoked exactly once; with an empty filter the
\* filtered search is not invoked at all.
C2_FallbackExactlyOnce ==
    \A t \in Threads :
        calls[t].load = 1
            => /\ ~WhereTruthy(where[t]) => calls[t].filtered = 0
               /\ calls[t].fallback <= 1
               /\ (/\ \/ ~WhereTruthy(where[t])
                      \/ SearchReturned(t) /\ SearchCount(t) = 0
                   /\ PastRetrieval(t))
                    => calls[t].fallback = 1

\* a call whose filtered search found nothing has answered by the fallback
C2_Witness ==
    \E t \in Threads :
        /\ pc[t] = "returned"
        /\ result[t].kind = "answer"
        /\ WhereTruthy(where[t])
        /\ SearchReturned(t)
        /\ SearchCount(t) = 0
        /\ calls[t].fallback = 1

\* the calls on bot b that have returned an answer not yet handed over
Returning(b) ==
    {t \in Threads :
        bot[t] = b /\ pc[t] = "returned" /\ result[t].kind = "answer"}

\* C3: the length of a session's history equals the number of its calls
\* that returned an answer: a successful call appends exactly one turn and
\* a call whose generation fails leaves the history unchanged.
C3_HistoryCountsAnswers ==
    \A b \in BotIds :
        Len(memory[b]) = answered[b] + Cardinality(Returning(b))

\* no call is in flight, one call was answered and one failed in generation
C3_Witness ==
    /\ \A t \in Workers : pc[t] = "done"
    /\ \E t \in Workers : calls[t].failed = "generate"
    /\ \E b \in BotIds : Len(memory[b]) = 1 /\ answered[b] = 1

\* thread t is between loading the history and saving its turn
InSession(t) ==
    pc[t] \in {"similarity_search", "qa_invoke", "save_filtered",
               "chain_retrieve", "chain_generate", "save_fallback"}

\* C4: concurrent chat requests of one session are serialized: no two calls
\* are at once between loading the session's history and saving their turn.
C4_SessionSerialized ==
    \A t1, t2 \in Threads :
        (t1 # t2 /\ bot[t1] = bot[t2] /\ conv[t1] = conv[t2])
            => ~(InSession(t1) /\ InSession(t2))

\* C5: a turn recorded for one conversation never appears in the history
\* supplied to the fallback retriever or the generator for a request of
\* another conversation.
C5_MemoryPerConversation ==
    \A t \in Threads :
        (calls[t].fallback > 0 \/ calls[t].generate > 0)
            => \A i \in 1..Len(chat_history[t]) :
                  chat_history[t][i].conv = conv[t]

\* bot.chat was called for thread t's question and has returned
ChatReturned(t) ==
    pc[t] \in {"returned", "done"} /\ calls[t].failed # "construct"

\* C6: for every question equal, ignoring case, to a termination token,
\* chat returns the fixed termination message, makes no call to the vector
\* index or the generator, and neither reads nor modifies the memory.
C6_TerminationBypassesAll ==
    \A t \in Threads :
        (Lower(question[t]) \in TerminationTokens /\ ChatReturned(t))
            => /\ calls[t].filtered = 0
               /\ calls[t].fallback = 0
               /\ calls[t].generate = 0
               /\ calls[t].load = 0
               /\ calls[t].save = 0
               /\ pc[t] = "returned" => result[t] = TerminationResult
               /\ pc[t] = "done"
                    => /\ response[t].status = "200"
                       /\ response[t].answer = TerminationMessage

\* "Exit" was answered with the termination message by a bot whose memory
\* holds a turn
C6_Witness ==
    \E t \in Workers :
        /\ question[t] = <<"E", "x", "i", "t">>
        /\ pc[t] = "done"
        /\ response[t].answer = TerminationMessage
        /\ Len(memory[bot[t]]) > 0

\* C7: an empty or whitespace-only question is rejected with a validation
\* error before bot construction, vector index, fallback retriever or
\* generator is called and without changing the memory, on every entry
\* point that reaches chat.
C7_BlankRejected ==
    \A t \in Threads :
        (IsBlank(question[t]) /\ pc[t] \notin {"off", "idle", "cli_start"})
            => /\ calls[t].construct = 0
               /\ calls[t].filtered = 0
               /\ calls[t].fallback = 0
               /\ calls[t].generate = 0
               /\ calls[t].save = 0
               /\ pc[t] \in {"returned", "done"}
                    => response[t].status = "400"

\* the message of the retrieval call that failed in thread t's call
RetrievalFailure(t) ==
    IF calls[t].failed = "similarity_search" THEN SearchError
    ELSE RetrieveError

\* C8: if the filtered search or the fallback retrieval fails, chat returns
\* an error result carrying the failure message: the call is not retried,
\* the other retrieval path is not taken, the generator is not invoked and
\* the memory is not changed.
C8_RetrievalFailureSurfaces ==
    \A t \in Threads :
        calls[t].failed \in {"similarity_search", "retriever"}
            => /\ pc[t] \in {"except", "returned", "done", "cli_input"}
               /\ exc[t] = RetrievalFailure(t)
               /\ calls[t].failed = "similarity_search"
                    => calls[t].filtered = 1 /\ calls[t].fallback = 0
               /\ calls[t].failed = "retriever"
                    => /\ calls[t].fallback = 1
                       /\ calls[t].filtered
                            = (IF WhereTruthy(where[t]) THEN 1 ELSE 0)
               /\ calls[t].generate = 0
               /\ calls[t].save = 0
               /\ pc[t] = "returned"
                    => /\ result[t].kind = "error"
                       /\ result[t].error = RetrievalFailure(t)
               /\ pc[t] = "done"
                    => /\ response[t].status = "500"
                       /\ response[t].detail = RetrievalFailure(t)

\* a request whose search found nothing and whose fallback then failed has
\* been answered 500
C8_Witness ==
    \E t \in Workers :
        /\ pc[t] = "done"
        /\ calls[t].failed = "retriever"
        /\ calls[t].filtered = 1
        /\ response[t].status = "500"

\* the question contains a full YYYY-MM-DD date
HasFullDate(q) == \E i \in 1..Len(q) : DateFullAt(q, i)

\* C9: for every question containing a full YYYY-MM-DD date, the extracted
\* predicate set has date_exact (date_full) set and date_month_day (date_md)
\* not set, also when the question contains a month-day expression too.
C9_FullDateExcludesMonthDay ==
    (stage # "question" /\ HasFullDate(in_question))
        => (filters.date_full # None /\ filters.date_md = None)

\* the clauses of a compiled filter on the locator keys
LocatorKeys == {"market", "province", "city"}
LocatorsOf(w) ==
    {i \in 1..Len(w.clauses) : w.clauses[i].key \in LocatorKeys}

\* C10: for every predicate set in which market is set together with
\* province and/or city, the compiled filter contains exactly one locator
\* clause, the market equality clause, and no province or city clause.
C10_MarketOnlyLocator ==
    (/\ stage = "built"
     /\ filters.market # None
     /\ (filters.province # None \/ filters.city # None))
        => /\ Cardinality(LocatorsOf(out_where)) = 1
           /\ \A i \in LocatorsOf(out_where) :
                 out_where.clauses[i] = Clause("market", filters.market)

\* a filter has been compiled from market, province and city all set
C10_Witness ==
    /\ stage = "built"
    /\ filters.market # None
    /\ filters.province # None
    /\ filters.city # None
    /\ out_where.op = "$and"

\* the question of thread t's call yields no predicate at all
NoPredicates(t) == _parse_filters(question[t]) = NoFilters

\* C11: a predicate set with every key absent compiles to the empty filter,
\* never to a filter that matches nothing, and a chat call with such a
\* predicate set sends no filtered search and still retrieves, through the
\* fallback.
C11_EmptyFilterFallsBack ==
    /\ _build_where(NoFilters) = EmptyWhere
    /\ ~WhereTruthy(_build_where(NoFilters))
    /\ \A t \in Threads :
        (calls[t].load = 1 /\ NoPredicates(t))
            => /\ where[t] = EmptyWhere
               /\ calls[t].filtered = 0
               /\ ~calls[t].search_ok
               /\ PastRetrieval(t) => calls[t].fallback = 1
               /\ result[t].kind = "answer"
                    => /\ calls[t].fallback = 1
                       /\ calls[t].generate = 1

\* a call whose question has no predicate returned an answer made from the
\* documents of the fallback
C11_Witness ==
    \E t \in Threads :
        /\ pc[t] = "returned"
        /\ NoPredicates(t)
        /\ where[t] = EmptyWhere
        /\ result[t].kind = "answer"
        /\ calls[t].fallback = 1
        /\ result[t].retrieved_count >= 1

\* q has a market suffix with at least n name characters right before it
HasMarketToken(q, n) ==
    \E j \in 1..Len(q) :
        /\ \E k \in 1..Len(MarketSuffixes) : StartsAt(q, j, MarketSuffixes[k])
        /\ j > n
        /\ \A h \in (j - n)..(j - 1) : q[h] \in MarketChar

\* m is a span of q made of a name of four or more allowed characters and a
\* market suffix
IsMarketSpan(q, m) ==
    /\ Contains(q, m)
    /\ \E k \in 1..Len(MarketSuffixes) :
        LET n == Len(m) - Len(MarketSuffixes[k])
        IN  /\ n >= 4
            /\ StartsAt(m, n + 1, MarketSuffixes[k])
            /\ \A h \in 1..n : m[h] \in MarketChar

\* C12 (as stated): for a question with a market-style token, a name right
\* before a market suffix, also a name of two characters, the extraction
\* sets market to the name-and-suffix span and the compiled filter has no
\* province or city clause.
C12_MarketTokenSetsMarket ==
    (stage = "built" /\ HasMarketToken(in_question, 2))
        => /\ filters.market # None
           /\ Contains(in_question, filters.market)
           /\ HasMarketToken(filters.market, 2)
           /\ \A i \in LocatorsOf(out_where) :
                 out_where.clauses[i].key = "market"

\* C12 (amended): the extraction sets market exactly when a market suffix has
\* four or more allowed characters right before it, to a span of the
\* question made of such a name and the suffix, and the compiled filter then
\* has no province or city clause; for the question of LanzhouQuestion, whose
\* market name is two characters long, market stays unset and the compiled
\* filter is the variety clause alone.
C12_MarketNeedsFourCharacters ==
    stage = "built"
        => /\ HasMarketToken(in_question, 4)
                => /\ filters.market # None
                   /\ IsMarketSpan(in_question, filters.market)
                   /\ Cardinality(LocatorsOf(out_where)) = 1
                   /\ \A i \in LocatorsOf(out_where) :
                         out_where.clauses[i]
                            = Clause("market", filters.market)
           /\ ~HasMarketToken(in_question, 4) => filters.market = None
           /\ in_question = LanzhouQuestion
                => /\ filters.market = None
                   /\ out_where.op = "clause"
                   /\ out_where.clauses
                        = <<Clause("variety", <<"da", "bai", "cai">>)>>

\* a filter was compiled from a question in which a province name is part of
\* a market name of four or more characters: market is the only locator
C12_Witness ==
    /\ stage = "built"
    /\ HasMarketToken(in_question, 4)
    /\ filters.market # None
    /\ filters.province # None
    /\ Cardinality(LocatorsOf(out_where)) = 1

\* the step hands thread t's history to the fallback retriever or to the
\* generator
HistoryHanded(t) ==
    \/ calls'[t].fallback = calls[t].fallback + 1
    \/ calls'[t].generate = calls[t].generate + 1

\* the turns saved by the successful calls of conversation c, in their order
SessionTurns(mem, c) == SelectSeq(mem, LAMBDA turn : turn.conv = c)

\* C13: within one session, the history handed to the fallback retriever and
\* to the generator on a chat call is exactly the sequence of the turns of
\* the session's successful calls so far, in the order they occurred; so the
\* fallback of a second question after one successful turn gets a non-empty
\* history.
C13_HistoryIsEarlierTurns ==
    [][\A t \in Threads :
          HistoryHanded(t)
            => chat_history[t] = SessionTurns(memory[bot[t]], conv[t])]_vars

\* C14: every chat call that returns a successful answer has invoked the
\* generator exactly once and returns what that invocation produced, also
\* when the retrieval gave no document and when the call went through the
\* fallback with a non-empty history.
C14_GenerationExactlyOnce ==
    \A t \in Threads :
        result[t].kind = "answer"
            => /\ calls[t].generate = 1
               /\ calls[t].failed = "none"
               /\ result[t].answer \in Answers
               /\ result[t].answer = answer[t]
               /\ calls[t].gen_context = docs[t]

\* an answer was returned by a call that went through the fallback with a
\* non-empty history and retrieved no document
C14_Witness ==
    \E t \in Threads :
        /\ pc[t] = "returned"
        /\ result[t].kind = "answer"
        /\ calls[t].fallback = 1
        /\ Len(chat_history[t]) > 0
        /\ result[t].retrieved_count = 0
        /\ calls[t].generate = 1

\* the reference order of the clauses: each candidate clause with the
\* condition under which it is part of the filter
ReferenceClauses(f) ==
    LET rows ==
            << [on |-> f.market # None,
                clause |-> [key |-> "market", eq |-> f.market]],
               [on |-> f.market = None /\ f.province # None,
                clause |-> [key |-> "province", eq |-> f.province]],
               [on |-> f.market = None /\ f.city # None,
                clause |-> [key |-> "city", eq |-> f.city]],
               [on |-> f.date_full # None,
                clause |-> [key |-> "date", eq |-> f.date_full]],
               [on |-> f.date_full = None /\ f.date_md # None,
                clause |-> [key |-> "date_md", eq |-> f.date_md]],
               [on |-> f.variety # None,
                clause |-> [key |-> "variety", eq |-> f.variety]] >>
        kept == SelectSeq(rows, LAMBDA r : r.on)
    IN  [i \in 1..Len(kept) |-> kept[i].clause]

\* C15: the clause list of the compiled filter is the reference list, the
\* locator clause(s), then at most one date clause (the full date before
\* the month-day), then the category clause; no clause gives the empty
\* filter, one clause the bare clause, two or more one conjunction of all
\* of them in that order.
C15_ClausesInReferenceOrder ==
    stage = "built"
        => LET ref == ReferenceClauses(filters)
           IN  /\ out_where.clauses = ref
               /\ Len(ref) = 0 <=> out_where.op = "empty"
               /\ Len(ref) = 1 <=> out_where.op = "clause"
               /\ Len(ref) >= 2 <=> out_where.op = "$and"
               /\ Cardinality({i \in 1..Len(out_where.clauses) :
                      out_where.clauses[i].key \in {"date", "date_md"}}) <= 1

\* the filter compiled from a full date, a province and a category is the
\* conjunction of three clauses, although a month-day is set too
C15_Witness ==
    /\ stage = "built"
    /\ filters.date_full # None
    /\ filters.date_md # None
    /\ filters.province # None
    /\ filters.variety # None
    /\ filters.market = None
    /\ filters.city = None
    /\ out_where.op = "$and"
    /\ Len(out_where.clauses) = 3
    /\ out_where.clauses[1].key = "province"
    /\ out_where.clauses[2].key = "date"
    /\ out_where.clauses[3].key = "variety"

\* the positions in the province list of the names that occur in q
ProvincesIn(q) ==
    {k \in 1..Len(Provinces) :
        \E i \in 1..Len(q) : StartsAt(q, i, Provinces[k])}

\* the first position in q at which the province name p starts
FirstAt(q, p) ==
    Min({i \in 1..Len(q) : StartsAt(q, i, p)})

\* C16: the province recorded for a question is the first entry in the
\* order of the province list whose name occurs in the question, wherever
\* the names stand in the text, and it is unset when no name occurs.
C16_ProvinceByListOrder ==
    stage # "question"
        => /\ ProvincesIn(in_question) = {} <=> filters.province = None
           /\ \A k \in ProvincesIn(in_question) :
                 (\A h \in ProvincesIn(in_question) : k <= h)
                    => filters.province = Provinces[k]

\* a question was parsed in which a later entry of the list stands before
\* the recorded province in the text
C16_Witness ==
    /\ stage # "question"
    /\ filters.province # None
    /\ \E k \in ProvincesIn(in_question) :
          /\ Provinces[k] # filters.province
          /\ FirstAt(in_question, Provinces[k])
                < FirstAt(in_question, filters.province)

\* C17: in every successful answer result, retrieved_count is the number of
\* source texts and the sources are the texts of the documents that were
\* passed to the generator, in retrieval order; on the filtered path the
\* count is between 1 and 10.
C17_CountMatchesSources ==
    \A t \in Threads :
        result[t].kind = "answer"
            => /\ result[t].retrieved_count = Len(result[t].sources)
               /\ Len(result[t].sources) = Len(calls[t].gen_context)
               /\ \A i \in 1..Len(result[t].sources) :
                     result[t].sources[i]
                        = calls[t].gen_context[i].page_content
               /\ calls[t].fallback = 0
                    => /\ calls[t].gen_context = calls[t].search_result
                       /\ result[t].retrieved_count >= 1
                       /\ result[t].retrieved_count <= 10

\* an answer of the filtered path made from ten documents, while more than
\* ten documents of the index match the filter
C17_Witness ==
    \E t \in Threads :
        /\ pc[t] = "returned"
        /\ result[t].kind = "answer"
        /\ calls[t].fallback = 0
        /\ calls[t].filtered = 1
        /\ MaxDocs > 10
        /\ result[t].retrieved_count = 10
        /\ Len(result[t].sources) = 10

\* get_bot has returned to the /chat handler of thread t in its current
\* request
GotBot(t) ==
    pc[t] \in {"chat", "similarity_search", "qa_invoke", "save_filtered",
               "chain_retrieve", "chain_generate", "save_fallback", "except",
               "returned"}

\* C18: under any interleaving of concurrent get_bot calls with no
\* reset_bot, the chatbot is constructed at most once and every caller is
\* given that one instance; as long as no construction has succeeded _bot
\* stays None, so that a get_bot after a failed construction constructs
\* again.
C18_ConstructedOnce ==
    /\ nbots <= 1
    /\ _bot = nbots
    /\ \A t \in Workers : GotBot(t) => (bot[t] = _bot /\ bot[t] = 1)
    /\ \A t \in Workers :
          (pc[t] = "done" /\ calls[t].failed = "construct")
              => response[t].status = "500"
    /\ \A t1, t2 \in Workers :
          (GotBot(t1) /\ GotBot(t2)) => bot[t1] = bot[t2]

\* one request got 500 because the construction failed, and the get_bot of
\* another request then constructed the chatbot and returned it
C18_Witness ==
    \E t1, t2 \in Workers :
        /\ pc[t1] = "done"
        /\ calls[t1].failed = "construct"
        /\ GotBot(t2)
        /\ calls[t2].construct = 1
        /\ bot[t2] = 1
        /\ nbots = 1

\* a /rebuild request is being served by thread t
RebuildInProgress(t) ==
    pc[t] \in {"rmtree", "init_vector_db", "reset_bot", "get_bot",
               "get_bot_lock", "get_bot_locked", "get_bot_return",
               "rebuild_return"}

\* the /rebuild request of thread t has returned its "ok"
RebuildSucceeded(t) == pc[t] = "done" /\ response[t].status = "200"

\* the bot of thread t's /chat request is about to query the index
QueriesIndex(t) == pc[t] \in {"similarity_search", "chain_retrieve"}

\* C19: under any interleaving of /rebuild with /chat and /health, once a
\* rebuild has returned successfully and no rebuild is in progress, the bot
\* get_bot returns was constructed after that rebuild's index build had
\* finished; and no chat request is served by a bot whose index directory
\* has been deleted and not yet rebuilt.
C19_RebuildConsistent ==
    /\ \A r \in Rebuilders :
          (/\ RebuildSucceeded(r)
           /\ \A o \in Rebuilders : ~RebuildInProgress(o)
           /\ _bot # 0)
              => bot_built[_bot] >= build_no[r]
    /\ \A t \in Workers : QueriesIndex(t) => index_dir = "ready"

============================================================================
